---- MODULE Spec2Model ----
(***************************************************************************)
(* ReachCubeEnv (gym_lowcostrobot/envs/reach_cube_env.py) as a state       *)
(* machine: construction, reset(seed) and step(action) over the state of   *)
(* the physics simulator the environment owns.                             *)
(*                                                                         *)
(* Numbers are fixed point: one unit is 0.001 (metres, radians, metres or  *)
(* radians per second), so 1.0 is 1000, the threshold 0.01 is 10 and the   *)
(* default obj_xy_range 0.15 is 150.  The simulator stores float64 values  *)
(* (every integer of the grid); a float32 value is a multiple of F32Step.  *)
(* The simulator itself (mj_step, forward kinematics) is an external,      *)
(* opaque collaborator: its result is a choice among a bounded set of      *)
(* outcomes.                                                               *)
(***************************************************************************)
EXTENDS Integers, Sequences, FiniteSets, TLC

VARIABLES
    status,             \* "unconstructed" | "ready" | "failed" (constructor raised)
    action_mode,        \* self.action_mode
    action_space,       \* self.action_space
    observation_space,  \* self.observation_space
    threshold_distance, \* self.threshold_distance
    object_low,         \* self.object_low
    object_high,        \* self.object_high
    np_random,          \* self.np_random, the state of the generator
    qpos,               \* self.data.qpos, 6 arm joints then the cube's free joint (7)
    qvel,               \* self.data.qvel, 6 arm joints then the cube's 6 dofs
    ctrl,               \* self.data.ctrl, the 6 actuator targets
    time,               \* self.data.time, in simulator steps
    xpos_ee,            \* self.data.xpos of the end-effector body (forward kinematics)
    target,             \* the action as base_step_action_nograsp forwards it
    ret,                \* what the last call returned
    seed_pos,           \* history: where the first reset(seed=s) put the cube, per seed
    was_terminated      \* history: a step of this episode has returned terminated

vars == << status, action_mode, action_space, observation_space, threshold_distance,
           object_low, object_high, np_random, qpos, qvel, ctrl, time, xpos_ee,
           target, ret, seed_pos, was_terminated >>

env_config == << action_mode, action_space, observation_space, threshold_distance,
                 object_low, object_high >>

sim_data == << qpos, qvel, ctrl, time, xpos_ee, target >>

history == << seed_pos, was_terminated >>

----------------------------------------------------------------------------
(* Bounds of the model *)

\* the generator has RngMod states
RngMod == 4
\* explicit seeds are 0 .. MaxSeed
MaxSeed == 1
\* step is not called once data.time has reached MaxTime
MaxTime == 2

----------------------------------------------------------------------------
(* Numeric helpers *)

Min(a, b) == IF a < b THEN a ELSE b

Max(a, b) == IF a < b THEN b ELSE a

Vec(n, v) == [i \in 1..n |-> v]

RECURSIVE SumSq(_)
SumSq(v) == IF v = << >> THEN 0 ELSE Head(v) * Head(v) + SumSq(Tail(v))

RECURSIVE SumAbs(_)
SumAbs(v) == IF v = << >> THEN 0 ELSE Max(Head(v), -Head(v)) + SumAbs(Tail(v))

RECURSIVE SqrtIter(_, _, _)
\* the largest r in lo..hi with r*r <= n, by bisection
SqrtIter(n, lo, hi) ==
    IF lo >= hi THEN lo
    ELSE LET mid == (lo + hi + 1) \div 2
         IN IF mid * mid <= n THEN SqrtIter(n, mid, hi) ELSE SqrtIter(n, lo, mid - 1)

\* np.linalg.norm on the grid: the Euclidean norm rounded down to a whole unit.
\* For a whole threshold t, Norm(v) < t exactly when the real norm is < t.
\* The search ends at the sum of the absolute values, which no norm exceeds.
Norm(v) == SqrtIter(SumSq(v), 0, SumAbs(v))

\* a[:n]
SliceTo(a, n) == SubSeq(a, 1, Min(n, Len(a)))

\* a - b with numpy broadcasting of a one-element operand
BroadcastSub(a, b) ==
    IF Len(a) = Len(b) THEN [i \in 1..Len(a) |-> a[i] - b[i]]
    ELSE IF Len(b) = 1 THEN [i \in 1..Len(a) |-> a[i] - b[1]]
    ELSE [i \in 1..Len(b) |-> a[1] - b[i]]

\* np.ndarray.clip(low, high), element by element
Clip(a, low, high) == [i \in 1..Len(a) |-> Max(low, Min(high, a[i]))]

\* the float32 values of the grid are the multiples of F32Step
F32Step == 4

\* x.astype(np.float32) on one value: round to nearest, ties to even
Float32(x) ==
    LET q == x \div F32Step
        r == x % F32Step
    IN IF 2 * r < F32Step THEN q * F32Step
       ELSE IF 2 * r > F32Step THEN (q + 1) * F32Step
       ELSE IF q % 2 = 0 THEN q * F32Step ELSE (q + 1) * F32Step

AsFloat32(a) == [i \in 1..Len(a) |-> Float32(a[i])]

----------------------------------------------------------------------------
(* Spaces and configuration *)

Box(low, high, shape) == [low |-> low, high |-> high, shape |-> shape]

\* np.pi on the grid: |x| <= 3141 exactly when |x| <= 3141.59...
PI == 3141

\* the +-10.0 of the velocity and object position boxes
OBS_HIGH == 10000

\* line 85 with the arm declared with the 5 joints of the class description
ObservationSpaceFiveJoints ==
    [ image_front |-> Box(-PI, PI, << 240, 320, 3 >>),
      image_top   |-> Box(-PI, PI, << 240, 320, 3 >>),
      arm_qpos    |-> Box(-PI, PI, << 5 >>),
      arm_qvel    |-> Box(-OBS_HIGH, OBS_HIGH, << 5 >>),
      object_qpos |-> Box(-OBS_HIGH, OBS_HIGH, << 3 >>),
      object_qvel |-> Box(-OBS_HIGH, OBS_HIGH, << 3 >>) ]

\* the right-hand side of line 85
ObservationSpace ==
    [ image_front |-> Box(-PI, PI, << 240, 320, 3 >>),
      image_top   |-> Box(-PI, PI, << 240, 320, 3 >>),
      arm_qpos    |-> Box(-PI, PI, << 6 >>),
      arm_qvel    |-> Box(-OBS_HIGH, OBS_HIGH, << 6 >>),
      object_qpos |-> Box(-OBS_HIGH, OBS_HIGH, << 3 >>),
      object_qvel |-> Box(-OBS_HIGH, OBS_HIGH, << 3 >>) ]

THRESHOLD_DISTANCE == 10

DEFAULT_OBJ_XY_RANGE == 150

\* a second, small configured range that puts the cube next to the origin
SMALL_OBJ_XY_RANGE == 12

ObjXYRanges == { DEFAULT_OBJ_XY_RANGE, SMALL_OBJ_XY_RANGE }

ValidActionModes == { "joint", "ee" }

\* the action modes a caller may pass, one of them invalid
RequestedActionModes == ValidActionModes \cup { "velocity" }

\* the bounds of the action box, -1.0 and 1.0
ACTION_HIGH == 1000

\* BaseRobotEnv.set_action_space_without_gripper
set_action_space_without_gripper(mode) ==
    IF mode = "ee" THEN Box(-ACTION_HIGH, ACTION_HIGH, << 3 >>)
    ELSE Box(-ACTION_HIGH, ACTION_HIGH, << 5 >>)

\* the height at which the cube is placed
OBJECT_Z == 0

\* BaseRobotEnv.set_object_range: the rectangle [-r, r] x [-r, r] at height OBJECT_Z
set_object_range(r) ==
    [ low |-> << -r, -r, OBJECT_Z >>, high |-> << r, r, OBJECT_Z >> ]

\* BaseRobotEnv.__init__ without a check of the action mode
base_init_accepts_any(mode) == TRUE

\* BaseRobotEnv.__init__ accepts the action mode
base_init_accepts(mode) == mode \in ValidActionModes

object_rot == << 1000, 0, 0, 0 >>

\* MjData of a freshly loaded model: every joint at its reference position
InitialQpos == Vec(6, 0) \o << 0, 0, OBJECT_Z >> \o object_rot

NoObservation == << >>

Return(op, arg, raised, obs, reward, terminated, truncated) ==
    [ op |-> op, arg |-> arg, raised |-> raised, observation |-> obs,
      reward |-> reward, terminated |-> terminated, truncated |-> truncated ]

None == "None"

Init ==
    /\ status = "unconstructed"
    /\ action_mode = None
    /\ action_space = None
    /\ observation_space = None
    /\ threshold_distance = 0
    /\ object_low = << >>
    /\ object_high = << >>
    /\ np_random = 0
    /\ qpos = << >>
    /\ qvel = << >>
    /\ ctrl = << >>
    /\ time = 0
    /\ xpos_ee = << >>
    /\ target = << >>
    /\ seed_pos = [s \in 0..MaxSeed |-> << >>]
    /\ was_terminated = FALSE
    /\ ret = Return("none", None, FALSE, NoObservation, 0, FALSE, FALSE)

\* Forward kinematics, the end-effector position data.xpos holds for arm joints q:
\* a fixed function of the joint positions, here a reach of 100 along x at height 50
\* turned by the first two joints
ForwardKinematics(q) == << 100 + q[2] \div 10, q[1] \div 10, 50 >>

\* ReachCubeEnv.__init__(action_mode=mode, obj_xy_range=r); entropy is the state the
\* generator gets from the operating system when it is first used unseeded
Construct(mode, r, entropy) ==
    /\ status = "unconstructed"
    /\ IF ~ base_init_accepts(mode)
       THEN /\ status' = "failed"
            /\ ret' = Return("__init__", mode, TRUE, NoObservation, 0, FALSE, FALSE)
            /\ UNCHANGED << env_config, np_random, sim_data, history >>
       ELSE /\ status' = "ready"
            /\ action_mode' = mode
            /\ action_space' = set_action_space_without_gripper(mode)
            /\ observation_space' = ObservationSpace
            /\ threshold_distance' = THRESHOLD_DISTANCE
            /\ object_low' = set_object_range(r).low
            /\ object_high' = set_object_range(r).high
            /\ np_random' = entropy
            /\ qpos' = InitialQpos
            /\ qvel' = Vec(12, 0)
            /\ ctrl' = Vec(6, 0)
            /\ time' = 0
            /\ xpos_ee' = ForwardKinematics(InitialQpos)
            /\ target' = << >>
            /\ ret' = Return("__init__", mode, FALSE, NoObservation, 0, FALSE, FALSE)
            /\ UNCHANGED history

----------------------------------------------------------------------------
(* reset *)

\* np.random.default_rng(seed): the generator state a seed gives
SeedState(seed) == (3 * seed + 1) % RngMod

\* the generator's step
RngNext(s) == (s + 3) % RngMod

\* one draw of Generator.uniform(low, high) from generator state s (already stepped):
\* low + (high - low) * u with u = s / RngMod in [0, 1)
Uniform1(low, high, s) == low + ((high - low) * s) \div RngMod

\* Generator.uniform(low, high) on 3-vectors: one draw per component
Uniform(low, high, s) ==
    LET s1 == RngNext(s)
        s2 == RngNext(s1)
        s3 == RngNext(s2)
    IN [ value |-> << Uniform1(low[1], high[1], s1), Uniform1(low[2], high[2], s2),
                      Uniform1(low[3], high[3], s3) >>,
         state |-> s3 ]

\* what the renderer gives for one camera
RenderedImage == [ shape |-> << 240, 320, 3 >> ]

\* BaseRobotEnv.get_observation_dict_one_object
get_observation_dict_one_object(q, v) ==
    [ image_front |-> RenderedImage,
      image_top   |-> RenderedImage,
      arm_qpos    |-> SubSeq(q, 1, 6),
      arm_qvel    |-> SubSeq(v, 1, 6),
      object_qpos |-> SubSeq(q, 7, 9),
      object_qvel |-> SubSeq(v, 7, 9) ]

\* reset that does not hand the seed on to gymnasium.Env.reset
ReseedIgnored(seeded, seed) == np_random

\* gymnasium.Env.reset(seed=seed): a seed replaces the generator, None keeps it
Reseed(seeded, seed) == IF seeded THEN SeedState(seed) ELSE np_random

\* line 99
SampleObjectPos(rng) == AsFloat32(Uniform(object_low, object_high, rng).value)

\* lines 96 and 101: the arm's 6 joints, then the cube's position and orientation
ResetQpos(object_pos) == AsFloat32(Vec(6, 0)) \o object_pos \o AsFloat32(object_rot)

\* ReachCubeEnv.reset(seed): seeded says whether a seed is given
Reset(seeded, seed) ==
    /\ status = "ready"
    /\ LET rng == Reseed(seeded, seed)
           object_pos == SampleObjectPos(rng)
           q == ResetQpos(object_pos)
       IN /\ np_random' = Uniform(object_low, object_high, rng).state
          /\ qpos' = q
          \* mujoco.mj_forward: positions recomputed, no integration
          /\ xpos_ee' = ForwardKinematics(q)
          /\ ret' = Return("reset", [seeded |-> seeded, seed |-> seed], FALSE,
                           get_observation_dict_one_object(q, qvel), 0, FALSE, FALSE)
          /\ seed_pos' = IF seeded /\ seed_pos[seed] = << >>
                         THEN [seed_pos EXCEPT ![seed] = object_pos]
                         ELSE seed_pos
          /\ was_terminated' = FALSE
    /\ UNCHANGED << status, env_config, qvel, ctrl, time, target >>

----------------------------------------------------------------------------
(* step *)

\* BaseRobotEnv.inverse_kinematics: the joint targets for an end-effector target
\* (the inverse of ForwardKinematics, kept within the joints' range)
InverseKinematics(ee_target) ==
    Clip(<< ee_target[2] * 10, (ee_target[1] - 100) * 10, 0, 0, 0, ee_target[3] \div 10 >>,
         -PI, PI)

\* the joint velocities the integrator may leave behind; it bounds none of them
SimVelocities == { 0, OBS_HIGH + 1 }

\* what contact with the arm may do to the cube: displacement, orientation, velocity
CubePush == [ delta |-> << -6, 0, 0 >>, rot |-> << 0, 1000, 0, 0 >>, vel |-> 500 ]

\* mujoco.mj_step from (q, v) under actuator targets c: the arm stays or reaches its
\* targets, the cube stays or is pushed
MjStep(q, v, c) ==
    { [ qpos |-> arm \o cube.pos \o cube.rot,
        qvel |-> Vec(6, av) \o Vec(6, cube.vel),
        xpos_ee |-> ForwardKinematics(arm) ] :
        arm \in { SubSeq(q, 1, 6), c },
        av \in SimVelocities,
        cube \in { [ pos |-> SubSeq(q, 7, 9), rot |-> SubSeq(q, 10, 13), vel |-> 0 ],
                   [ pos |-> [i \in 1..3 |-> q[6 + i] + CubePush.delta[i]],
                     rot |-> CubePush.rot, vel |-> CubePush.vel ] } }

\* the action forwarded as it is given
ForwardedUnclipped(action) == action

\* the action as forwarded: clipped to the bounds of the action space
ForwardedAction(action) == Clip(action, action_space.low, action_space.high)

\* the actuator targets base_step_action_nograsp writes to data.ctrl
ActuatorTargets(fwd) ==
    IF action_mode = "ee"
    THEN InverseKinematics([i \in 1..3 |-> xpos_ee[i] + fwd[i]])
    ELSE fwd \o << ctrl[6] >>

\* the joint's slice of data.qpos, as data.joint(name).qpos gives it
JointQpos(q, name) ==
    IF name = "red_box_joint" THEN SubSeq(q, 7, 13)
    ELSE IF name = "gripper_opening" THEN SubSeq(q, 6, 6)
    ELSE << >>

\* lines 124-126
Distance(q) ==
    LET cube_pos == SliceTo(JointQpos(q, "red_box_joint"), 3)
        ee_pos == SliceTo(JointQpos(q, "gripper_opening"), 3)
    IN Norm(BroadcastSub(cube_pos, ee_pos))

\* line 129 without the negation
RewardNotNegated(distance) == distance

\* line 129
Reward(distance) == -distance

\* the comparison of line 132 made inclusive
TerminatedAtThreshold(distance) == distance <= threshold_distance

\* line 132
Terminated(distance) == distance < threshold_distance

\* line 137 with an episode limit of one step
TruncatedAtLimit == time >= 1

\* line 137
Truncated == FALSE

\* history: a step of this episode, the last one included, has returned terminated
TerminatedEarlier == was_terminated \/ (ret.op = "step" /\ ret.terminated)

\* ReachCubeEnv.step(action)
Step(action) ==
    /\ status = "ready"
    /\ time < MaxTime
    /\ IF Len(action) # action_space.shape[1]
       THEN \* the action does not fit the actuation: base_step_action_nograsp raises
            /\ ret' = Return("step", action, TRUE, NoObservation, 0, FALSE, FALSE)
            /\ was_terminated' = TerminatedEarlier
            /\ UNCHANGED << sim_data >>
       ELSE LET fwd == ForwardedAction(action)
                 c == ActuatorTargets(fwd)
            IN \E out \in MjStep(qpos, qvel, c) :
                  /\ target' = fwd
                  /\ ctrl' = c
                  /\ qpos' = out.qpos
                  /\ qvel' = out.qvel
                  /\ xpos_ee' = out.xpos_ee
                  /\ time' = time + 1
                  /\ ret' = Return("step", action, FALSE,
                                   get_observation_dict_one_object(out.qpos, out.qvel),
                                   Reward(Distance(out.qpos)),
                                   Terminated(Distance(out.qpos)), Truncated)
                  /\ was_terminated' = TerminatedEarlier
    /\ UNCHANGED << status, env_config, np_random, seed_pos >>

\* the values a caller puts in an action: below the box, inside it
ActionValues == { -1500, 500 }

\* the actions a caller passes: of the size of one mode's action space, which is
\* the wrong size in the other mode
Actions == UNION { { Vec(n, a) : a \in ActionValues } : n \in { 3, 5 } }

Next ==
    \/ \E mode \in RequestedActionModes, r \in ObjXYRanges, e \in 0..(RngMod - 1) :
          Construct(mode, r, e)
    \/ \E seed \in 0..MaxSeed : Reset(TRUE, seed)
    \/ Reset(FALSE, 0)
    \/ \E action \in Actions : Step(action)

Spec == Init /\ [][Next]_vars

----------------------------------------------------------------------------
(* Properties *)

StepReturned == ret.op = "step" /\ ~ ret.raised

ResetReturned == ret.op = "reset"

CubePos == SubSeq(qpos, 7, 9)

\* C1: every step returns terminated = TRUE exactly when the distance it computed is
\* strictly below the threshold 0.01; a distance equal to the threshold gives FALSE.
C1_TerminatedIffBelowThreshold ==
    StepReturned =>
        /\ ret.terminated <=> (Distance(qpos) < THRESHOLD_DISTANCE)
        /\ Distance(qpos) = THRESHOLD_DISTANCE => ~ ret.terminated

\* a step whose computed distance is exactly the threshold
C1_Witness ==
    StepReturned /\ Distance(qpos) = THRESHOLD_DISTANCE /\ ~ ret.terminated

\* C2: the reward of a step is the negated Euclidean distance between the
\* end-effector's position and the cube's position after the step.
C2_RewardIsNegatedEEDistance ==
    StepReturned => ret.reward = - Norm(BroadcastSub(xpos_ee, CubePos))

\* C3: the reward of every step is at most 0.
C3_RewardNonPositive == StepReturned => ret.reward <= 0

\* a step with a strictly negative reward
C3_Witness == StepReturned /\ ret.reward < 0

\* C4: after every reset the cube's position is inside [object_low, object_high].
C4_ObjectWithinRange ==
    ResetReturned =>
        \A i \in 1..3 : object_low[i] <= CubePos[i] /\ CubePos[i] <= object_high[i]

InBox(box, v) == \A i \in 1..Len(v) : box.low <= v[i] /\ v[i] <= box.high

\* C5: every observation reset returns is inside the bounds of the observation space
\* (the joint and object vectors; the pixels of the images are not modelled).
C5_ResetObservationInBounds ==
    ResetReturned =>
        \A k \in { "arm_qpos", "arm_qvel", "object_qpos", "object_qvel" } :
            InBox(observation_space[k], ret.observation[k])

\* the shape of entry k of an observation: an image carries its shape, a vector has
\* its length
ShapeOf(obs, k) ==
    IF k \in { "image_front", "image_top" } THEN obs[k].shape ELSE << Len(obs[k]) >>

C7_TruncatedFalse == ret.op = "step" => ret.truncated = FALSE

\* a second or later step of an episode in which an earlier step returned terminated
C7_Witness == StepReturned /\ was_terminated /\ time >= 2

\* C8: a step given an action of the right size with values outside the action space
\* raises nothing, and what it does to the simulator is what the step does for the
\* action clipped to the bounds of the action space.
C8_OutOfRangeClipped ==
    [][ (ret'.op = "step" /\ vars' # vars /\ << Len(ret'.arg) >> = action_space.shape) =>
          LET clipped == Clip(ret'.arg, action_space.low, action_space.high)
              c == ActuatorTargets(clipped)
          IN /\ ~ ret'.raised
             /\ target' = clipped
             /\ ctrl' = c
             /\ \E out \in MjStep(qpos, qvel, c) :
                   qpos' = out.qpos /\ qvel' = out.qvel /\ xpos_ee' = out.xpos_ee
      ]_vars

\* a step carried out for an action with a component outside the action space
C8_Witness ==
    StepReturned /\ \E i \in 1..Len(ret.arg) : ret.arg[i] < action_space.low

\* C9: the constructor raises for an action mode other than "joint" and "ee", and no
\* reset or step runs on an environment with such a mode.
C9_InvalidModeFailsFast ==
    /\ (ret.op = "__init__" /\ ret.arg \notin ValidActionModes) =>
          ret.raised /\ status = "failed"
    /\ status = "failed" => ret.op = "__init__"
    /\ ret.op \in { "reset", "step" } => action_mode \in ValidActionModes

\* the constructor has raised for an invalid action mode
C9_Witness == status = "failed" /\ ret.arg = "velocity" /\ ret.raised

\* C10: a reset leaves the six arm joints at 0 and the cube's orientation at
\* (1, 0, 0, 0) whatever came before, does not advance simulation time, and a reset
\* with an explicit seed puts the cube where the first reset with that seed put it.
C10_ResetStartingPose ==
    [][ (ret'.op = "reset" /\ vars' # vars) =>
          /\ SubSeq(qpos', 1, 6) = << 0, 0, 0, 0, 0, 0 >>
          /\ SubSeq(qpos', 10, 13) = << 1000, 0, 0, 0 >>
          /\ time' = time
          /\ ret'.arg.seeded =>
                /\ seed_pos'[ret'.arg.seed] = SubSeq(qpos', 7, 9)
                /\ seed_pos[ret'.arg.seed] # << >> =>
                      seed_pos[ret'.arg.seed] = SubSeq(qpos', 7, 9)
      ]_vars

\* a seeded reset after a step that moved the arm, turned the cube and left velocities
C10_Witness ==
    /\ ResetReturned /\ ret.arg.seeded
    /\ time >= 1
    /\ \E i \in 1..6 : ctrl[i] # 0
    /\ \E i \in 1..12 : qvel[i] # 0

====
